---------------------------- MODULE Spec2Model ----------------------------
(***************************************************************************)
(* A model of notebooks/03_mlflow/pitch_spelling.ipynb: the pitch-spelling *)
(* notebook.  Python globals are the variables, every code cell (and every *)
(* iteration of a loop that reads or writes a file) is an action, and the  *)
(* helper functions are operators that compute what the Python computes.   *)
(*                                                                         *)
(* A spelled name such as "B##" is the sequence of its characters          *)
(* <<"B", "#", "#">>, so that name[0] is Head and name[1:] is Tail.        *)
(* Floats are exact rationals [num, den].  Python's 0-based arrays are     *)
(* functions on 0..n-1 where the index matters and sequences elsewhere.    *)
(***************************************************************************)
EXTENDS Integers, Sequences, FiniteSets, TLC

VARIABLES
    PITCHES,            \* global: dict pitch class -> list of names ({} before its cell)
    accepted_pitches,   \* global: flat list of names (<<>> before its cell)
    pitch_to_ix,        \* global: dict name -> index
    module,             \* the PKSpell instance (None before it is constructed)
    ps_note,            \* the argument of the last tokenize_pitch_spelling call
    label,              \* its outcome
    spelled,            \* the (step, alter) decoded from label as predict decodes
    perf_note,          \* the argument of the last extract_features call
    features,           \* its outcome
    pc,                 \* the cell (or loop) the notebook run is at
    error,              \* the exception that stopped the run ("" while it runs)
    asap_files,         \* global: list of (alignment_fn, mfn, sfn, match_name)
    asap_train,         \* global: the training subset
    asap_test,          \* global: the test subset
    fs,                 \* the files read or written so far: path -> content
    calls,              \* the library calls made so far, in order
    i_loop,             \* the 0-based index of the running for loop
    cd_data,            \* create_data: data
    cd_labels,          \* create_data: labels
    X_train,            \* global
    y_train,            \* global
    X_test,             \* global
    y_test,             \* global
    trainer,            \* the pl.Trainer (None before its cell)
    train_dataloader,   \* global: DataLoader over (X_train, y_train)
    val_dataloader,     \* global: DataLoader over (X_test, y_test)
    batch,              \* the batch collate_ps returned last (None before any)
    performance,        \* global: the last loaded performance
    alignment,          \* global: the last loaded alignment
    pk_spelling,        \* global: the outcome of the last predict
    score_file,         \* global: the score of the evaluated performance
    baseline_spelling,  \* global: the spelling estimate_spelling returned
    true_spelling,      \* global: the spelling eval_matched read from the score
    matched,            \* global: the mask eval_matched returned
    acc_pk,             \* global: the accuracy of pk_spelling
    acc_ps13            \* global: the accuracy of baseline_spelling

noteVars == <<ps_note, label, spelled, perf_note, features>>
tableVars == <<PITCHES, accepted_pitches, pitch_to_ix>>
fileVars == <<asap_files, asap_train, asap_test>>
dataVars == <<X_train, y_train, X_test, y_test>>
loopVars == <<i_loop, cd_data, cd_labels>>
evalVars == <<performance, alignment, pk_spelling>>
fitVars == <<trainer, train_dataloader, val_dataloader, batch>>
truthVars == <<score_file, baseline_spelling, true_spelling, matched, acc_pk, acc_ps13>>
runVars == <<pc, error, fileVars, fs, calls, loopVars, dataVars, fitVars, evalVars,
             truthVars>>

None == [none |-> TRUE]

---------------------------------------------------------------------------
(* Exact rationals for the float-valued features.                          *)

Rat(n, d) == [num |-> n, den |-> d]
RatDiv(r, k) == [num |-> r.num, den |-> r.den * k]
RatEq(a, b) == a.num * b.den = b.num * a.den
RatLeq(a, b) == a.num * b.den <= b.num * a.den
Zero == Rat(0, 1)
One == Rat(1, 1)

---------------------------------------------------------------------------
(* The lookup tables.                                                      *)

Steps == {"A", "B", "C", "D", "E", "F", "G"}
Alters == -2..2

\* The notebook's literal, row by row in the order it is written (a Python
\* dict keeps insertion order; the keys are 0..11 in that order).
PITCHES_rows ==
    << << <<"C">>,      <<"B","#">>,     <<"D","-","-">> >>,
       << <<"C","#">>,  <<"B","#","#">>, <<"D","-">> >>,
       << <<"D">>,      <<"C","#","#">>, <<"E","-","-">> >>,
       << <<"D","#">>,  <<"E","-">>,     <<"F","-","-">> >>,
       << <<"E">>,      <<"D","#","#">>, <<"F","-">> >>,
       << <<"F">>,      <<"E","#">>,     <<"G","-","-">> >>,
       << <<"F","#">>,  <<"E","#","#">>, <<"G","-">> >>,
       << <<"G">>,      <<"F","#","#">>, <<"A","-","-">> >>,
       << <<"G","#">>,  <<"A","-">> >>,
       << <<"A">>,      <<"G","#","#">>, <<"B","-","-">> >>,
       << <<"A","#">>,  <<"B","-">>,     <<"C","-","-">> >>,
       << <<"B">>,      <<"A","#","#">>, <<"C","-">> >> >>

\* A slip of the pen in row 10: "C-" (which is row 11's) for "C--".
PITCHES_literal_flat ==
    [k \in 0..(Len(PITCHES_rows) - 1) |->
        IF k = 10 THEN << <<"A","#">>, <<"B","-">>, <<"C","-">> >>
        ELSE PITCHES_rows[k + 1]]

\* A slip of the pen in row 6: "E#" for "E##".
PITCHES_literal_sharp ==
    [k \in 0..(Len(PITCHES_rows) - 1) |->
        IF k = 6 THEN << <<"F","#">>, <<"E","#">>, <<"G","-">> >>
        ELSE PITCHES_rows[k + 1]]

PITCHES_literal == [k \in 0..(Len(PITCHES_rows) - 1) |-> PITCHES_rows[k + 1]]

\* [ii for i in d.values() for ii in i]
RECURSIVE FlattenFrom(_, _)
FlattenFrom(d, k) ==
    IF k \notin DOMAIN d THEN << >> ELSE d[k] \o FlattenFrom(d, k + 1)

FlattenValues(d) == FlattenFrom(d, 0)

\* list.index(p) : the 0-based position of the first occurrence
ListIndex(lst, p) ==
    (CHOOSE i \in 1..Len(lst) :
        /\ lst[i] = p
        /\ \A j \in 1..(i - 1) : lst[j] # p) - 1

\* The index counted from 1.
PitchToIx_from1(acc) ==
    [p \in {acc[i] : i \in 1..Len(acc)} |-> ListIndex(acc, p) + 1]

\* {p: accepted_pitches.index(p) for p in accepted_pitches}
PitchToIx(acc) ==
    [p \in {acc[i] : i \in 1..Len(acc)} |-> ListIndex(acc, p)]

\* The markdown table "Pitch Class / Tonal Pitch Class", natural read as no
\* accidental, sharp as "#", flat as "-", double sharp "##", double flat "--".
TonalPitchClassTable ==
    [k \in 0..11 |->
        CASE k = 11 -> { <<"B">>,     <<"C","-">>,  <<"A","#","#">> }
          [] k = 10 -> { <<"B","-">>, <<"A","#">>,  <<"C","-">> }
          [] k = 9  -> { <<"A">>,     <<"G","-">>,  <<"B","-","-">> }
          [] k = 8  -> { <<"A","-">>, <<"G","#">> }
          [] k = 7  -> { <<"G">>,     <<"F","-">>,  <<"A","-","-">> }
          [] k = 6  -> { <<"F","#">>, <<"G","-">>,  <<"E","#","#">> }
          [] k = 5  -> { <<"F">>,     <<"E","#">>,  <<"G","-","-">> }
          [] k = 4  -> { <<"E">>,     <<"F","-">>,  <<"D","#","#">> }
          [] k = 3  -> { <<"D","#">>, <<"E","-">>,  <<"F","-","-">> }
          [] k = 2  -> { <<"D">>,     <<"C","#","#">>, <<"E","-","-">> }
          [] k = 1  -> { <<"C","#">>, <<"D","-">>,  <<"B","#","#">> }
          [] k = 0  -> { <<"C">>,     <<"B","#">>,  <<"D","-","-">> }]

---------------------------------------------------------------------------
(* tokenize_pitch_spelling, the decoding of predict, extract_features.     *)

\* {0:"", 1:"#", 2:"##", -1:"-", -2:"--"}
AlterToStr ==
    [a \in {0, 1, 2, -1, -2} |->
        CASE a = 0 -> << >>
          [] a = 1 -> <<"#">>
          [] a = 2 -> <<"#","#">>
          [] a = -1 -> <<"-">>
          [] a = -2 -> <<"-","-">>]

\* {"":0, "#":1, "##":2, "-":-1, "--":-2}
StrToAlter(s) ==
    CASE s = << >> -> 0
      [] s = <<"#">> -> 1
      [] s = <<"#","#">> -> 2
      [] s = <<"-">> -> -1
      [] s = <<"-","-">> -> -2

StrToAlterKeys == { << >>, <<"#">>, <<"#","#">>, <<"-">>, <<"-","-">> }

Ok(v) == [err |-> "", val |-> v]
Raise(e) == [err |-> e, val |-> None]

\* The accidental signs exchanged.
tokenize_pitch_spelling_swapped(note, p2ix) ==
    IF note.alter \notin DOMAIN AlterToStr THEN Raise("KeyError")
    ELSE LET name == <<note.step>> \o AlterToStr[0 - note.alter]
         IN  IF name \in DOMAIN p2ix THEN Ok(p2ix[name]) ELSE Raise("KeyError")

\* tokenize_pitch_spelling(ps_note) with the globals as they are
tokenize_pitch_spelling(note, p2ix) ==
    IF note.alter \notin DOMAIN AlterToStr THEN Raise("KeyError")
    ELSE LET name == <<note.step>> \o AlterToStr[note.alter]
         IN  IF name \in DOMAIN p2ix THEN Ok(p2ix[name]) ELSE Raise("KeyError")

\* (accepted_pitches[pp][0], {...}[accepted_pitches[pp][1:]]) of predict
DecodeToken(pp, acc) ==
    IF pp + 1 \notin DOMAIN acc THEN Raise("IndexError")
    ELSE LET name == acc[pp + 1]
         IN  IF Tail(name) \in StrToAlterKeys
             THEN Ok([step |-> Head(name), alter |-> StrToAlter(Tail(name))])
             ELSE Raise("KeyError")

InputDim == 14
PitchClasses == 12
MidiMax == 127
SecondsPerMinute == 60

\* The pitch normalised by 128 and the one-hot slot taken from pitch // 12.
extract_features_octave(note) ==
    [i \in 0..(InputDim - 1) |->
        IF i = InputDim - 1 THEN RatDiv(note.duration_sec, SecondsPerMinute)
        ELSE IF i = InputDim - 2 THEN Rat(note.pitch, MidiMax + 1)
        ELSE IF i = note.pitch \div PitchClasses THEN One
        ELSE Zero]

\* The duration normalised by half a minute.
extract_features_halfminute(note) ==
    [i \in 0..(InputDim - 1) |->
        IF i = InputDim - 1 THEN RatDiv(note.duration_sec, SecondsPerMinute \div 2)
        ELSE IF i = InputDim - 2 THEN Rat(note.pitch, MidiMax)
        ELSE IF i = note.pitch % PitchClasses THEN One
        ELSE Zero]

\* extract_features(perf_note)
extract_features(note) ==
    [i \in 0..(InputDim - 1) |->
        IF i = InputDim - 1 THEN RatDiv(note.duration_sec, SecondsPerMinute)
        ELSE IF i = InputDim - 2 THEN Rat(note.pitch, MidiMax)
        ELSE IF i = note.pitch % PitchClasses THEN One
        ELSE Zero]

---------------------------------------------------------------------------
(* Calls on single notes: the domain of the note-level functions.  A        *)
(* session defines the tables and then calls one helper on one argument of *)
(* its domain: tokenize_pitch_spelling (and decodes the label it returned) *)
(* or extract_features.  The helpers share no state.                       *)

MaxDurationSec == 90

MidiPitches == 0..MidiMax
Durations ==
    { Rat(0, 1), Rat(1, 2), Rat(59, 1), Rat(60, 1), Rat(61, 1), Rat(MaxDurationSec, 1) }
Octaves == {4}

\* The cell that defines PITCHES, accepted_pitches and pitch_to_ix.
DefinePitches ==
    /\ PITCHES' = PITCHES_literal
    /\ accepted_pitches' = FlattenValues(PITCHES')
    /\ pitch_to_ix' = PitchToIx(accepted_pitches')

TablesDefined == accepted_pitches # << >>

\* PKSpell.__init__ : self.n_out_pitch = len(pitch_to_ix)
ConstructModel ==
    module' = [n_out_pitch |-> Cardinality(DOMAIN pitch_to_ix)]

NoteDefinePitches ==
    /\ ~TablesDefined
    /\ DefinePitches
    /\ UNCHANGED <<noteVars, module, runVars>>

NoteConstructModel ==
    /\ TablesDefined
    /\ module = None
    /\ ConstructModel
    /\ UNCHANGED <<tableVars, noteVars, runVars>>

NoteTokenize ==
    /\ TablesDefined
    /\ label = None
    /\ features = None
    /\ \E s \in Steps, a \in Alters, o \in Octaves :
        /\ ps_note' = [step |-> s, alter |-> a, octave |-> o]
        /\ label' = tokenize_pitch_spelling(ps_note', pitch_to_ix)
    /\ spelled' = None
    /\ UNCHANGED <<tableVars, module, perf_note, features, runVars>>

NoteDecode ==
    /\ TablesDefined
    /\ label # None
    /\ spelled = None
    /\ label.err = ""
    /\ spelled' = DecodeToken(label.val, accepted_pitches)
    /\ UNCHANGED <<tableVars, module, ps_note, label, perf_note, features, runVars>>

NoteExtractFeatures ==
    /\ features = None
    /\ label = None
    /\ \E p \in MidiPitches, d \in Durations :
        /\ perf_note' = [pitch |-> p, duration_sec |-> d]
        /\ features' = extract_features(perf_note')
    /\ UNCHANGED <<tableVars, module, ps_note, label, spelled, runVars>>

vars == <<tableVars, module, noteVars, runVars>>

InitTables ==
    /\ PITCHES = << >>
    /\ accepted_pitches = << >>
    /\ pitch_to_ix = << >>
    /\ module = None

InitNoteVars ==
    /\ ps_note = None
    /\ label = None
    /\ spelled = None
    /\ perf_note = None
    /\ features = None

InitFiles ==
    /\ asap_files = << >>
    /\ asap_train = << >>
    /\ asap_test = << >>
    /\ fs = << >>

InitLoop ==
    /\ i_loop = 0
    /\ cd_data = << >>
    /\ cd_labels = << >>

InitData ==
    /\ X_train = << >>
    /\ y_train = << >>
    /\ X_test = << >>
    /\ y_test = << >>

InitFit ==
    /\ trainer = None
    /\ train_dataloader = None
    /\ val_dataloader = None
    /\ batch = None

InitEval ==
    /\ performance = None
    /\ alignment = << >>
    /\ pk_spelling = None
    /\ score_file = None
    /\ baseline_spelling = None
    /\ true_spelling = None
    /\ matched = None
    /\ acc_pk = None
    /\ acc_ps13 = None

InitRunVars ==
    /\ error = ""
    /\ calls = << >>
    /\ InitFiles
    /\ InitLoop
    /\ InitData
    /\ InitFit
    /\ InitEval

\* A session that only defines the tables and calls the helpers.
InitNote ==
    /\ InitTables
    /\ InitNoteVars
    /\ InitRunVars
    /\ pc = "helpers"

NextNote ==
    \/ NoteDefinePitches
    \/ NoteConstructModel
    \/ NoteTokenize
    \/ NoteDecode
    \/ NoteExtractFeatures

SpecNote == InitNote /\ [][NextNote]_vars


---------------------------------------------------------------------------
(* The dataset on disk.  A path is [dir, stem, ext]: dir the sequence of   *)
(* directory names, each name (and the stem) the sequence of its words     *)
(* between "_", so that "Italian_concerto" in path and split("_")[0] are   *)
(* computed and not assumed.                                               *)

MaxFiles == 4

DATASET_DIR == << <<"asap-dataset">> >>

Path(dir, stem, ext) == [dir |-> dir, stem |-> stem, ext |-> ext]

\* os.path.dirname / os.path.basename of a directory
DirName(dir) == SubSeq(dir, 1, Len(dir) - 1)
BaseName(dir) == dir[Len(dir)]

\* needle in name, for a needle without "/" : it lies within one name
OccursIn(needle, name) ==
    \E i \in 0..(Len(name) - Len(needle)) :
        SubSeq(name, i + 1, i + Len(needle)) = needle

\* needle in path
PathContains(needle, path) ==
    \/ \E j \in 1..Len(path.dir) : OccursIn(needle, path.dir[j])
    \/ OccursIn(needle, path.stem)

ItalianConcerto == <<"Italian", "concerto">>

\* The directories of Bach pieces, and under each the directories of the
\* note alignments of its performances: the roots os.walk finds a
\* note_alignment.tsv in.
PieceDirs ==
    { << <<"Prelude">>, <<"bwv", "846">> >>,
      << <<"Fugue">>, <<"bwv", "846">> >>,
      << <<"Italian", "concerto">> >> }

\* The performances of a piece, in the order their directories are listed.
PerformersOf(piece) ==
    IF piece = << <<"Italian", "concerto">> >>
    THEN <<"KaszoS15M", "LeeN01M", "Sychev01M">>
    ELSE <<"Shi05M">>

RootOf(piece, perf) ==
    DATASET_DIR \o << <<"Bach">> >> \o piece \o << <<perf, "note", "alignments">> >>

Roots ==
    UNION { { RootOf(piece, PerformersOf(piece)[i]) : i \in 1..Len(PerformersOf(piece)) } :
            piece \in PieceDirs }

\* The tuple the comprehension of asap_files builds for one root and file.
AsapEntry(root, file) ==
    << Path(root, file.stem, file.ext),
       Path(DirName(root), <<Head(BaseName(root))>>, "mid"),
       Path(DirName(root), <<"xml", "score">>, "musicxml"),
       Path(root, file.stem, "match") >>

NoteAlignmentTsv == [stem |-> <<"note", "alignment">>, ext |-> "tsv"]

RECURSIVE Listings(_)
\* The duplicate-free sequences of n roots: the orders os.walk may list in.
Listings(n) ==
    IF n = 0 THEN { << >> }
    ELSE { Append(l, r) : <<l, r>> \in
             { <<l0, r0>> \in Listings(n - 1) \X Roots :
                 \A i \in 1..Len(l0) : l0[i] # r0 } }

IsTestRoot(root) == \E j \in 1..Len(root) : OccursIn(ItalianConcerto, root[j])

\* os.walk is top-down: the performances of one piece are listed together.
WalkOrder(l) ==
    \A i, j, k \in 1..Len(l) :
        (i < j /\ j < k /\ DirName(l[i]) = DirName(l[k])) => DirName(l[j]) = DirName(l[i])

\* The performance names carry no meaning: of each piece the dataset holds
\* the first few performances, listed in their order.
FirstPerformances(l) ==
    \A piece \in PieceDirs :
        LET ofPiece == SelectSeq(l, LAMBDA r : DirName(r) = DATASET_DIR \o << <<"Bach">> >> \o piece)
        IN  \A i \in 1..Len(ofPiece) : ofPiece[i] = RootOf(piece, PerformersOf(piece)[i])

\* The datasets considered: at most MaxFiles performances, with a piece to
\* train on and a piece to test on, the pieces in any order os.walk may
\* list them in.
Datasets ==
    { l \in UNION { Listings(n) : n \in 0..MaxFiles } :
        /\ WalkOrder(l)
        /\ FirstPerformances(l)
        /\ \E i \in 1..Len(l) : IsTestRoot(l[i])
        /\ \E i \in 1..Len(l) : ~IsTestRoot(l[i]) }

\* A cell of the table as pandas reads it: a Python str, or an int where
\* the whole column is numeric.
PyStr(s) == [str |-> s]
PyInt(n) == [int |-> n]

\* cell == s, for a str s
PyEq(cell, s) == "str" \in DOMAIN cell /\ cell.str = s

\* str(cell)
Str(cell) == IF "int" \in DOMAIN cell THEN ToString(cell.int) ELSE cell.str

\* The contents a performance may have: its MIDI notes (id, pitch,
\* duration_sec) and the rows (xml_id, midi_id) of its alignment table.
Recordings ==
    { [pna |-> << [id |-> "0", pitch |-> 60, duration_sec |-> Rat(1, 2)],
                  [id |-> "1", pitch |-> 66, duration_sec |-> Rat(61, 1)],
                  [id |-> "2", pitch |-> 127, duration_sec |-> Rat(0, 1)] >>,
       rows |-> << <<PyStr("n2"), PyStr("1")>>, <<PyStr("insertion"), PyStr("2")>>,
                   <<PyStr("n1"), PyStr("0")>>, <<PyStr("n3"), PyStr("deletion")>> >>],
      [pna |-> << [id |-> "0", pitch |-> 11, duration_sec |-> Rat(2, 1)] >>,
       rows |-> << <<PyStr("n1"), PyStr("deletion")>>, <<PyStr("n3"), PyStr("0")>>,
                   <<PyStr("n2"), PyStr("deletion")>> >>] }

\* The note array of the (merged, unfolded) score of a piece, with its
\* pitch spelling.
ScoreNoteArray(sfn) ==
    IF PathContains(ItalianConcerto, sfn)
    THEN << [id |-> "n1", step |-> "F", alter |-> 0, octave |-> 4],
            [id |-> "n2", step |-> "B", alter |-> -1, octave |-> 4],
            [id |-> "n3", step |-> "C", alter |-> -1, octave |-> 5] >>
    ELSE << [id |-> "n1", step |-> "C", alter |-> 0, octave |-> 4],
            [id |-> "n2", step |-> "F", alter |-> 1, octave |-> 4],
            [id |-> "n3", step |-> "B", alter |-> 2, octave |-> 3] >>


---------------------------------------------------------------------------
(* The functions of the notebook that work on files and note arrays.       *)

\* The row tested for "insertion" first.
AlignmentEntry_insertionFirst(x) ==
    IF PyEq(x[1], "insertion") THEN [label |-> "insertion", performance_id |-> Str(x[2])]
    ELSE IF PyEq(x[2], "deletion") THEN [label |-> "deletion", score_id |-> x[1].str]
    ELSE [label |-> "match", score_id |-> x[1].str, performance_id |-> Str(x[2])]

\* The dict produce_match builds for one row x = (xml_id, midi_id), xml_id
\* a str.
AlignmentEntry(x) ==
    IF PyEq(x[2], "deletion") THEN [label |-> "deletion", score_id |-> x[1].str]
    ELSE IF PyEq(x[1], "insertion") THEN [label |-> "insertion", performance_id |-> Str(x[2])]
    ELSE [label |-> "match", score_id |-> x[1].str, performance_id |-> Str(x[2])]

\* The alignment list of produce_match, one entry per row, in row order.
ProduceAlignment(rows) == [i \in 1..Len(rows) |-> AlignmentEntry(rows[i])]

\* What save_match leaves in the match file and load_match returns from it.
MatchFile(pna, alg) == [performance |-> pna, alignment |-> alg]

\* [alignment[idx] for idx, d in enumerate(alignment) if d["label"] == "match"]
IsMatch(d) == d.label = "match"
MatchedNotes(alg) == SelectSeq(alg, IsMatch)

\* arr[np.where(arr["id"] == id)] : the notes of that id, in array order
WhereId(arr, id) == SelectSeq(arr, LAMBDA n : n.id = id)

\* The rows of X taken from the performance notes by position.
CreateDataPiece_byPosition(pna, alg, sna) ==
    LET matched_notes == MatchedNotes(alg)
        scor(idx) == WhereId(sna, matched_notes[idx].score_id)
    IN  Ok([X |-> [idx \in 1..Len(matched_notes) |-> extract_features(pna[idx])],
            y |-> [idx \in 1..Len(matched_notes) |->
                    tokenize_pitch_spelling(scor(idx)[1], pitch_to_ix).val]])

\* One iteration of the for loop of create_data: the (X, y) of one piece, or
\* the exception .item() or a dict lookup raises.
CreateDataPiece(pna, alg, sna) ==
    LET matched_notes == MatchedNotes(alg)
        perf(idx) == WhereId(pna, matched_notes[idx].performance_id)
        scor(idx) == WhereId(sna, matched_notes[idx].score_id)
        toks == [idx \in 1..Len(matched_notes) |->
                    IF Len(scor(idx)) = 1
                    THEN tokenize_pitch_spelling(scor(idx)[1], pitch_to_ix)
                    ELSE Raise("ValueError")]
    IN  IF \E idx \in 1..Len(matched_notes) : Len(perf(idx)) # 1
        THEN Raise("ValueError")
        ELSE IF \E idx \in 1..Len(matched_notes) : toks[idx].err # ""
        THEN Raise((CHOOSE e \in {toks[idx].err : idx \in 1..Len(matched_notes)} : e # ""))
        ELSE Ok([X |-> [idx \in 1..Len(matched_notes) |-> extract_features(perf(idx)[1])],
                 y |-> [idx \in 1..Len(matched_notes) |-> toks[idx].val]])

\* tensor.squeeze() of the (1, n) argmax: every dimension of size 1 goes,
\* which for n = 1 leaves a 0-dimensional tensor.
Squeeze(row) ==
    IF Len(row) = 1 THEN [dim |-> 0, item |-> row[1]] ELSE [dim |-> 1, items |-> row]

\* predict(ppart), given the argmax of the scores the network computes for
\* the n notes: the (step, alter, octave) array, or the exception raised.
Predict(pna, argmax) ==
    LET predicted_pitch == Squeeze(argmax)
    IN  IF predicted_pitch.dim = 0 THEN Raise("TypeError")
        ELSE LET dec == [i \in 1..Len(predicted_pitch.items) |->
                            DecodeToken(predicted_pitch.items[i], accepted_pitches)]
             IN  IF \E i \in DOMAIN dec : dec[i].err # ""
                 THEN Raise((CHOOSE e \in {dec[i].err : i \in DOMAIN dec} : e # ""))
                 ELSE Ok([i \in DOMAIN dec |->
                            [step |-> dec[i].val.step,
                             alter |-> dec[i].val.alter,
                             octave |-> (pna[i].pitch \div PitchClasses) - 1]])

\* The labels the network's argmax is drawn from in a run.
TokenSamples == {1, 31}

\* The argmax of the scores of n notes, the label of the first note being
\* any of first and the label of the others any of rest.
ArgmaxesAmong(n, first, rest) ==
    { argmax \in [1..n -> first \cup rest] :
        \A i \in 1..n : argmax[i] \in (IF i = 1 THEN first ELSE rest) }

Argmaxes(n) == ArgmaxesAmong(n, TokenSamples, TokenSamples)

\* The semitone of a letter above C.
Semitone(step) ==
    CASE step = "C" -> 0 [] step = "D" -> 2 [] step = "E" -> 4 [] step = "F" -> 5
      [] step = "G" -> 7 [] step = "A" -> 9 [] step = "B" -> 11

\* The spelling of MIDI pitch p under the k-th name of its pitch class: the
\* octave is the one in which that name sounds p.
SpellingOf(p, k) ==
    LET name == PITCHES_literal[p % PitchClasses][k]
        alter == StrToAlter(Tail(name))
    IN  [step |-> Head(name), alter |-> alter,
         octave |-> ((p - Semitone(Head(name)) - alter) \div PitchClasses) - 1]

\* The names ps13 is taken to choose among: the first two of a pitch class.
SpellingChoices == {1, 2}

\* pt.musicanalysis.estimate_spelling(performance): one (step, alter, octave)
\* per performance note, in note order, each a spelling of the note's pitch.
estimate_spelling(pna, choice) == [i \in 1..Len(pna) |-> SpellingOf(pna[i].pitch, choice[i])]

\* The match note the inner loop of eval_matched stops at, taken from the end.
FirstMatchOf_last(matched_notes, id) ==
    LET hits == SelectSeq(matched_notes, LAMBDA d : d.performance_id = id)
    IN  IF hits = << >> THEN None ELSE hits[Len(hits)]

\* for match_note in matched_notes: if match_note["performance_id"] == id:
\* ... break -- the match note the inner loop stops at, None if it runs out.
FirstMatchOf(matched_notes, id) ==
    LET hits == SelectSeq(matched_notes, LAMBDA d : d.performance_id = id)
    IN  IF hits = << >> THEN None ELSE hits[1]

\* np.where(sna["id"] == id)[0] : the 0-based positions of that id
WherePositions(sna, id) == {k \in 0..(Len(sna) - 1) : sna[k + 1].id = id}

\* arr[mask.astype(bool)] : the elements where the mask is not 0, in order.
RECURSIVE BoolIndexFrom(_, _, _)
BoolIndexFrom(arr, mask, i) ==
    IF i > Len(arr) THEN << >>
    ELSE (IF mask[i] # 0 THEN <<arr[i]>> ELSE << >>) \o BoolIndexFrom(arr, mask, i + 1)

BoolIndex(arr, mask) ==
    IF Len(arr) # Len(mask) THEN Raise("IndexError") ELSE Ok(BoolIndexFrom(arr, mask, 1))

\* eval_matched(score_file, alignment, performance): (true_spelling,
\* matched), or the exception raised by .item() when a score id is not the
\* id of exactly one score note and by the indexing with an empty (float)
\* index array when no performance note is matched.
eval_matched(sfile, alg, perf) ==
    LET sna == ScoreNoteArray(sfile)
        matched_notes == MatchedNotes(alg)
        pna == perf.pna
        hit == [i \in 1..Len(pna) |-> FirstMatchOf(matched_notes, pna[i].id)]
        where == [i \in 1..Len(pna) |->
                    IF hit[i] = None THEN {} ELSE WherePositions(sna, hit[i].score_id)]
        mask == [i \in 1..Len(pna) |-> IF hit[i] = None THEN 0 ELSE 1]
        idxs == [i \in 1..Len(pna) |-> CHOOSE k \in where[i] \cup {-1} :
                                            where[i] # {} => k \in where[i]]
        score_idxs == BoolIndexFrom(idxs, mask, 1)
    IN  IF \E i \in 1..Len(pna) : hit[i] # None /\ Cardinality(where[i]) # 1
        THEN Raise("ValueError")
        ELSE IF score_idxs = << >> THEN Raise("IndexError")
        ELSE Ok([true_spelling |->
                    [k \in 1..Len(score_idxs) |->
                        [step |-> sna[score_idxs[k] + 1].step,
                         alter |-> sna[score_idxs[k] + 1].alter,
                         octave |-> sna[score_idxs[k] + 1].octave]],
                 matched |-> mask])

\* np.all([a[key] == b[key] for key in a.dtype.names], axis=0)
\*   .astype(float).mean()
Accuracy(a, b) ==
    Rat(Cardinality({k \in 1..Len(a) : a[k] = b[k]}), Len(a))

---------------------------------------------------------------------------
(* Tensors, PSDataset, the DataLoader and collate_ps.  A tensor is its     *)
(* dtype and its data; a float32 is mant * 2^exp with 2^23 <= mant < 2^24  *)
(* (or mant = 0), so that .float() is the rounding it is.                  *)

MantissaBits == 23

Min(a, b) == IF a <= b THEN a ELSE b

RECURSIVE Pow2(_)
Pow2(k) == IF k = 0 THEN 1 ELSE 2 * Pow2(k - 1)

\* 2^k as a factor of the numerator (k >= 0) or of the denominator (k < 0)
Scaled(r, k) ==
    IF k >= 0 THEN [num |-> r.num * Pow2(k), den |-> r.den]
    ELSE [num |-> r.num, den |-> r.den * Pow2(0 - k)]

\* The binary exponent e of a value r > 0: 2^e <= r < 2^(e + 1)
BinaryExponent(r) ==
    CHOOSE e \in (0 - MantissaBits)..MantissaBits :
        /\ Scaled(r, 0 - e).num >= Scaled(r, 0 - e).den
        /\ Scaled(r, 0 - e).num < 2 * Scaled(r, 0 - e).den

\* r > 0 of binary exponent e, rounded to MantissaBits + 1 digits (ties to
\* even)
Round(r, e) ==
    LET s == Scaled(r, 0 - e)
        q == (s.num * Pow2(MantissaBits)) \div s.den
        rem == (s.num * Pow2(MantissaBits)) % s.den
        up == 2 * rem > s.den \/ (2 * rem = s.den /\ q % 2 = 1)
    IN  IF up /\ q + 1 = Pow2(MantissaBits + 1)
        THEN [mant |-> Pow2(MantissaBits), exp |-> e + 1 - MantissaBits]
        ELSE [mant |-> IF up THEN q + 1 ELSE q, exp |-> e - MantissaBits]

\* The float32 nearest to a value r >= 0 (the exponent, bound by the set
\* comprehension, is computed once).
Float32(r) ==
    IF r.num = 0 THEN [mant |-> 0, exp |-> 0]
    ELSE CHOOSE y \in {Round(r, e) : e \in {BinaryExponent(r)}} : TRUE

Tensor(dtype, data) == [dtype |-> dtype, data |-> data]

\* tensor.float() of a 2-dimensional tensor
Float(t) ==
    Tensor("float32", [i \in 1..Len(t.data) |->
        [j \in DOMAIN t.data[i] |->
            CHOOSE y \in {Float32(x) : x \in {t.data[i][j]}} : TRUE]])

\* PSDataset(x, y), its __len__ and its __getitem__(idx)
PSDataset(x, y) == [x |-> x, y |-> y]
PSDataset_len(ds) == Len(ds.x)
PSDataset_getitem(ds, idx) ==
    <<Tensor("float64", ds.x[idx + 1]), Tensor("int64", ds.y[idx + 1])>>

\* DataLoader(dataset, collate_fn=collate_ps, batch_size=...): no shuffling,
\* the last batch kept when it is short.
BatchSize == 1
DataLoader(dataset, batch_size) == [dataset |-> dataset, batch_size |-> batch_size]
NumBatches(dl) == (PSDataset_len(dl.dataset) + dl.batch_size - 1) \div dl.batch_size

\* The list of items the loader passes to collate_fn for batch k (0-based).
BatchItems(dl, k) ==
    LET first == k * dl.batch_size
        stop == Min(first + dl.batch_size, PSDataset_len(dl.dataset))
    IN  [i \in 1..(stop - first) |-> PSDataset_getitem(dl.dataset, first + i - 1)]

\* data.sort(key=lambda x: len(x[0]), reverse=True) : stable, so items of
\* equal length keep their order.
RECURSIVE SortByLength(_)
SortByLength(data) ==
    IF data = << >> THEN << >>
    ELSE LET sorted == SortByLength(SubSeq(data, 1, Len(data) - 1))
             item == data[Len(data)]
             k == Cardinality({i \in 1..Len(sorted) :
                                 Len(sorted[i][1].data) >= Len(item[1].data)})
         IN  SubSeq(sorted, 1, k) \o <<item>> \o SubSeq(sorted, k + 1, Len(sorted))

\* The batch left in the order the loader passed it in.
collate_ps_unsorted(data) ==
    [src_seqs |-> Float(data[1][1]),
     src_lengths |-> [i \in 1..Len(data) |-> Len(data[i][1].data)],
     trg_seqs |-> data[1][2]]

\* src_seqs, trg_seqs = zip(*data) ; src_lengths ; the return value
Collated(sorted) ==
    [src_seqs |-> Float(sorted[1][1]),
     src_lengths |-> [i \in 1..Len(sorted) |-> Len(sorted[i][1].data)],
     trg_seqs |-> sorted[1][2]]

\* collate_ps(data), for a non-empty list of (x, y) items
collate_ps(data) ==
    CHOOSE y \in {Collated(sorted) : sorted \in {SortByLength(data)}} : TRUE

---------------------------------------------------------------------------
(* The run of the notebook, cell by cell.                                  *)

MaxEpochs == 5
NumSanityValSteps == 2

Call(op, path) == [op |-> op, path |-> path]

\* The cell that follows a cell in the notebook.
CellAfter(c) ==
    CASE c = "asap_files" -> "split_files"
      [] c = "split_files" -> "produce_match"
      [] c = "produce_match" -> "split_pairs"
      [] c = "split_pairs" -> "pitches"
      [] c = "pitches" -> "create_train"
      [] c = "create_train" -> "create_test"
      [] c = "create_test" -> "model"
      [] c = "model" -> "fit"
      [] c = "fit" -> "predict"
      [] c = "predict" -> "eval_load"
      [] c = "eval_load" -> "eval_matched"
      [] c = "eval_matched" -> "accuracy"
      [] c = "accuracy" -> "done"

\* An exception ends the run in the cell that raised it.
Fail(e) ==
    /\ error' = e
    /\ UNCHANGED pc

At(c) == pc = c /\ error = ""

\* asap_files = [... for root, dirs, files in os.walk(...) for file in files
\*               if file.endswith("note_alignment.tsv")]
CellAsapFiles ==
    /\ At("asap_files")
    /\ \E listing \in Datasets :
        asap_files' = [i \in 1..Len(listing) |-> AsapEntry(listing[i], NoteAlignmentTsv)]
    /\ pc' = CellAfter(pc)
    /\ UNCHANGED <<tableVars, module, noteVars, error, asap_train, asap_test, fs,
                   calls, loopVars, dataVars, fitVars, evalVars, truthVars>>

\* The split on t[0], the path of the alignment table.
CellSplitFiles ==
    /\ At("split_files")
    /\ asap_train' = SelectSeq(asap_files, LAMBDA t : ~PathContains(ItalianConcerto, t[1]))
    /\ asap_test' = SelectSeq(asap_files, LAMBDA t : PathContains(ItalianConcerto, t[1]))
    /\ pc' = CellAfter(pc)
    /\ UNCHANGED <<tableVars, module, noteVars, error, asap_files, fs, calls,
                   loopVars, dataVars, fitVars, evalVars, truthVars>>

\* The loop run over the training subset only.
ProduceList_train == asap_train

\* The list the produce_match loop runs over.
ProduceList == asap_files

\* produce_match(*t) on the files of one recording: reads the table and the
\* MIDI file, writes the match file.
produce_match(t, rec) ==
    /\ fs' = (t[4] :> MatchFile(rec.pna, ProduceAlignment(rec.rows)))
             @@ (t[1] :> rec.rows) @@ (t[2] :> rec.pna) @@ fs
    /\ calls' = Append(calls, Call("produce_match", t[4]))

\* One iteration of "for ... in asap_files: produce_match(...)".
ProduceMatchCall ==
    /\ At("produce_match")
    /\ i_loop < Len(ProduceList)
    /\ \E rec \in Recordings : produce_match(ProduceList[i_loop + 1], rec)
    /\ i_loop' = i_loop + 1
    /\ UNCHANGED <<tableVars, module, noteVars, pc, error, fileVars, cd_data,
                   cd_labels, dataVars, fitVars, evalVars, truthVars>>

ProduceMatchDone ==
    /\ At("produce_match")
    /\ i_loop = Len(ProduceList)
    /\ i_loop' = 0
    /\ pc' = CellAfter(pc)
    /\ UNCHANGED <<tableVars, module, noteVars, error, fileVars, fs, calls,
                   cd_data, cd_labels, dataVars, fitVars, evalVars, truthVars>>

\* zip(score_files, match_files)
ScoreMatchPairs(files) == [i \in 1..Len(files) |-> <<files[i][3], files[i][4]>>]

\* The training subset left unfiltered.
SplitTrain_all(pairs) == pairs

\* The split on t[0], now the path of the score.
SplitTrain(pairs) == SelectSeq(pairs, LAMBDA t : ~PathContains(ItalianConcerto, t[1]))
SplitTest(pairs) == SelectSeq(pairs, LAMBDA t : PathContains(ItalianConcerto, t[1]))

CellSplitPairs ==
    /\ At("split_pairs")
    /\ IF Len(asap_files) = 0
       THEN Fail("ValueError") /\ UNCHANGED <<asap_train, asap_test>>
       ELSE /\ asap_train' = SplitTrain(ScoreMatchPairs(asap_files))
            /\ asap_test' = SplitTest(ScoreMatchPairs(asap_files))
            /\ pc' = CellAfter(pc)
            /\ UNCHANGED error
    /\ UNCHANGED <<tableVars, module, noteVars, asap_files, fs, calls, loopVars,
                   dataVars, fitVars, evalVars, truthVars>>

CellPitches ==
    /\ At("pitches")
    /\ DefinePitches
    /\ pc' = CellAfter(pc)
    /\ UNCHANGED <<module, noteVars, error, fileVars, fs, calls, loopVars,
                   dataVars, fitVars, evalVars, truthVars>>

\* The argument of the create_data call the run is in.
CreateDataFiles == IF pc = "create_train" THEN asap_train ELSE asap_test

\* One iteration of the for loop of create_data.
CreateDataFile ==
    /\ (At("create_train") \/ At("create_test"))
    /\ i_loop < Len(CreateDataFiles)
    /\ LET cd_score_file == CreateDataFiles[i_loop + 1][1]
           cd_match_file == CreateDataFiles[i_loop + 1][2]
       IN  /\ calls' = Append(calls, Call("load_match", cd_match_file))
           /\ IF cd_match_file \notin DOMAIN fs
              THEN Fail("FileNotFoundError") /\ UNCHANGED <<i_loop, cd_data, cd_labels>>
              ELSE LET r == CreateDataPiece(fs[cd_match_file].performance,
                                            fs[cd_match_file].alignment,
                                            ScoreNoteArray(cd_score_file))
                   IN  IF r.err # ""
                       THEN Fail(r.err) /\ UNCHANGED <<i_loop, cd_data, cd_labels>>
                       ELSE /\ cd_data' = Append(cd_data, r.val.X)
                            /\ cd_labels' = Append(cd_labels, r.val.y)
                            /\ i_loop' = i_loop + 1
                            /\ UNCHANGED <<pc, error>>
    /\ UNCHANGED <<tableVars, module, noteVars, fileVars, fs, dataVars, fitVars,
                   evalVars, truthVars>>

\* return data, labels ; and the assignment of the call's result
CreateDataReturn ==
    /\ (At("create_train") \/ At("create_test"))
    /\ i_loop = Len(CreateDataFiles)
    /\ IF pc = "create_train"
       THEN X_train' = cd_data /\ y_train' = cd_labels /\ UNCHANGED <<X_test, y_test>>
       ELSE X_test' = cd_data /\ y_test' = cd_labels /\ UNCHANGED <<X_train, y_train>>
    /\ calls' = Append(calls, Call("create_data_return", pc))
    /\ i_loop' = 0
    /\ cd_data' = << >>
    /\ cd_labels' = << >>
    /\ pc' = CellAfter(pc)
    /\ UNCHANGED <<tableVars, module, noteVars, error, fileVars, fs, fitVars, evalVars, truthVars>>

\* model = PKSpellPL(); the two DataLoaders; trainer = pl.Trainer(max_epochs=5)
CellModel ==
    /\ At("model")
    /\ ConstructModel
    /\ train_dataloader' = DataLoader(PSDataset(X_train, y_train), BatchSize)
    /\ val_dataloader' = DataLoader(PSDataset(X_test, y_test), BatchSize)
    /\ trainer' = [max_epochs |-> MaxEpochs, stage |-> "new", current_epoch |-> 0,
                   batch_idx |-> 0, n_train |-> NumBatches(train_dataloader'),
                   n_val |-> NumBatches(val_dataloader')]
    /\ pc' = CellAfter(pc)
    /\ UNCHANGED <<tableVars, noteVars, error, fileVars, fs, calls, loopVars,
                   dataVars, batch, evalVars, truthVars>>

\* trainer.fit(...) is entered: the sanity check of the validation loop first.
FitStart ==
    /\ At("fit")
    /\ trainer.stage = "new"
    /\ trainer' = [trainer EXCEPT !.stage = "sanity", !.batch_idx = 0]
    /\ calls' = Append(calls, Call("fit_start", "fit"))
    /\ UNCHANGED <<tableVars, module, noteVars, pc, error, fileVars, fs, loopVars,
                   dataVars, train_dataloader, val_dataloader, batch, evalVars,
                   truthVars>>

\* What a step is called with: the loop it runs in, the epoch, batch_idx.
StepOf(t) == [stage |-> t.stage, epoch |-> t.current_epoch, batch_idx |-> t.batch_idx]

\* The fit loop stopping one epoch short of max_epochs.
EpochEnd_short(t) ==
    [t EXCEPT !.current_epoch = @ + 1,
              !.batch_idx = 0,
              !.stage = IF t.current_epoch + 2 < t.max_epochs THEN "train" ELSE "stopped"]

\* The end of an epoch: the fit loop goes on while current_epoch < max_epochs.
EpochEnd(t) ==
    [t EXCEPT !.current_epoch = @ + 1,
              !.batch_idx = 0,
              !.stage = IF t.current_epoch + 1 < t.max_epochs THEN "train" ELSE "stopped"]

\* validation_step on one batch (sanity check or validation loop), or the
\* end of that loop.
ValidationStep ==
    /\ At("fit")
    /\ trainer.stage \in {"sanity", "val"}
    /\ LET n == IF trainer.stage = "sanity"
                THEN Min(NumSanityValSteps, trainer.n_val) ELSE trainer.n_val
       IN  IF trainer.batch_idx < n
           THEN /\ batch' = collate_ps(BatchItems(val_dataloader, trainer.batch_idx))
                /\ calls' = Append(calls, Call("validation_step", StepOf(trainer)))
                /\ trainer' = [trainer EXCEPT !.batch_idx = @ + 1]
           ELSE /\ UNCHANGED <<batch, calls>>
                /\ IF trainer.stage = "sanity"
                   THEN trainer' = [trainer EXCEPT !.stage = "train", !.batch_idx = 0]
                   ELSE trainer' = EpochEnd(trainer)
    /\ UNCHANGED <<tableVars, module, noteVars, pc, error, fileVars, fs, loopVars,
                   dataVars, train_dataloader, val_dataloader, evalVars, truthVars>>

\* training_step on one batch, or the end of the epoch's training loop.
TrainingStep ==
    /\ At("fit")
    /\ trainer.stage = "train"
    /\ IF trainer.batch_idx < trainer.n_train
       THEN /\ batch' = collate_ps(BatchItems(train_dataloader, trainer.batch_idx))
            /\ calls' = Append(calls, Call("training_step", StepOf(trainer)))
            /\ trainer' = [trainer EXCEPT !.batch_idx = @ + 1]
       ELSE /\ UNCHANGED <<batch, calls>>
            /\ trainer' = [trainer EXCEPT !.stage = "val", !.batch_idx = 0]
    /\ UNCHANGED <<tableVars, module, noteVars, pc, error, fileVars, fs, loopVars,
                   dataVars, train_dataloader, val_dataloader, evalVars, truthVars>>

\* `Trainer.fit` stopped: `max_epochs=5` reached.
FitReturn ==
    /\ At("fit")
    /\ trainer.stage = "stopped"
    /\ calls' = Append(calls, Call("fit_return", "fit"))
    /\ pc' = CellAfter(pc)
    /\ UNCHANGED <<tableVars, module, noteVars, error, fileVars, fs, loopVars,
                   dataVars, fitVars, evalVars, truthVars>>

\* pk_spelling = model.module.predict(performance), the network's argmax
\* being any labels.
CallPredictAmong(pna, first, rest) ==
    /\ calls' = Append(calls, Call("predict", "predict"))
    /\ \E argmax \in ArgmaxesAmong(Len(pna), first, rest) :
        /\ pk_spelling' = Predict(pna, argmax)
        /\ IF pk_spelling'.err # ""
           THEN Fail(pk_spelling'.err)
           ELSE pc' = CellAfter(pc) /\ UNCHANGED error

CallPredict(pna) == CallPredictAmong(pna, TokenSamples, TokenSamples)

\* MIDI_FILE = asap_files[0][1]; load_performance_midi; predict -- the
\* label of the first note being any of first, of the others any of rest
CellPredictAmong(first, rest) ==
    /\ At("predict")
    /\ IF Len(asap_files) = 0
       THEN /\ Fail("IndexError")
            /\ UNCHANGED <<calls, performance, pk_spelling>>
       ELSE /\ performance' = [pna |-> fs[asap_files[1][2]]]
            /\ CallPredictAmong(performance'.pna, first, rest)
    /\ UNCHANGED <<tableVars, module, noteVars, fileVars, fs, loopVars, dataVars,
                   fitVars, alignment, truthVars>>

CellPredict == CellPredictAmong(TokenSamples, TokenSamples)

\* score_file, match_file = asap_test[2]; load_match; estimate_spelling;
\* predict
CellEvalLoad ==
    /\ At("eval_load")
    /\ IF Len(asap_test) < 3
       THEN /\ Fail("IndexError")
            /\ UNCHANGED <<calls, evalVars, score_file, baseline_spelling>>
       ELSE LET match_file == asap_test[3][2]
            IN  /\ score_file' = asap_test[3][1]
                /\ IF match_file \notin DOMAIN fs
                   THEN /\ Fail("FileNotFoundError")
                        /\ calls' = Append(calls, Call("load_match", match_file))
                        /\ UNCHANGED <<evalVars, baseline_spelling>>
                   ELSE /\ performance' = [pna |-> fs[match_file].performance]
                        /\ alignment' = fs[match_file].alignment
                        /\ \E choice \in [1..Len(performance'.pna) -> SpellingChoices] :
                            baseline_spelling' = estimate_spelling(performance'.pna, choice)
                        /\ \E argmax \in Argmaxes(Len(performance'.pna)) :
                            /\ pk_spelling' = Predict(performance'.pna, argmax)
                            /\ IF pk_spelling'.err # ""
                               THEN Fail(pk_spelling'.err)
                               ELSE pc' = CellAfter(pc) /\ UNCHANGED error
                        /\ calls' = calls \o << Call("load_match", match_file),
                                               Call("predict", "predict") >>
    /\ UNCHANGED <<tableVars, module, noteVars, fileVars, fs, loopVars, dataVars,
                   fitVars, true_spelling, matched, acc_pk, acc_ps13>>

\* true_spelling, matched = eval_matched(score_file, alignment, performance);
\* pk_spelling = pk_spelling[matched.astype(bool)]; the same for
\* baseline_spelling
CellEvalMatched ==
    /\ At("eval_matched")
    /\ calls' = Append(calls, Call("eval_matched", score_file))
    /\ LET r == eval_matched(score_file, alignment, performance)
       IN  IF r.err # ""
           THEN /\ Fail(r.err)
                /\ UNCHANGED <<true_spelling, matched, pk_spelling, baseline_spelling>>
           ELSE LET pk == BoolIndex(pk_spelling.val, r.val.matched)
                    ps13 == BoolIndex(baseline_spelling, r.val.matched)
                IN  /\ true_spelling' = r.val.true_spelling
                    /\ matched' = r.val.matched
                    /\ IF pk.err # ""
                       THEN Fail(pk.err) /\ UNCHANGED <<pk_spelling, baseline_spelling>>
                       ELSE /\ pk_spelling' = pk
                            /\ IF ps13.err # ""
                               THEN Fail(ps13.err) /\ UNCHANGED baseline_spelling
                               ELSE /\ baseline_spelling' = ps13.val
                                    /\ pc' = CellAfter(pc)
                                    /\ UNCHANGED error
    /\ UNCHANGED <<tableVars, module, noteVars, fileVars, fs, loopVars, dataVars,
                   fitVars, performance, alignment, score_file, acc_pk, acc_ps13>>

\* acc_pk = sum(np.all(... pk_spelling[key] == true_spelling[key] ...)) /
\* len(true_spelling); acc_ps13 the same for baseline_spelling
CellAccuracy ==
    /\ At("accuracy")
    /\ acc_pk' = Accuracy(pk_spelling.val, true_spelling)
    /\ acc_ps13' = Accuracy(baseline_spelling, true_spelling)
    /\ pc' = CellAfter(pc)
    /\ UNCHANGED <<tableVars, module, noteVars, error, fileVars, fs, calls, loopVars,
                   dataVars, fitVars, evalVars, score_file, baseline_spelling,
                   true_spelling, matched>>

Init ==
    /\ InitTables
    /\ InitNoteVars
    /\ InitRunVars
    /\ At("asap_files")

Next ==
    \/ CellAsapFiles
    \/ CellSplitFiles
    \/ ProduceMatchCall
    \/ ProduceMatchDone
    \/ CellSplitPairs
    \/ CellPitches
    \/ CreateDataFile
    \/ CreateDataReturn
    \/ CellModel
    \/ FitStart
    \/ ValidationStep
    \/ TrainingStep
    \/ FitReturn
    \/ CellPredict
    \/ CellEvalLoad
    \/ CellEvalMatched
    \/ CellAccuracy

Spec == Init /\ [][Next]_vars

---------------------------------------------------------------------------
(* A DataLoader iterated on its own: datasets of a few pieces of 0 to 3    *)
(* notes and any batch size, the notebook's batch size of 1 among them.    *)

MaxPieces == 3
MaxBatch == 3

\* The feature rows of notes of the given pitches.
NoteRows(pitches) ==
    [i \in 1..Len(pitches) |->
        extract_features([pitch |-> pitches[i], duration_sec |-> Rat(1, 2)])]

\* Pieces as create_data builds them: (X, y) with one row per matched note.
SamplePieces ==
    { [X |-> << >>, y |-> << >>],
      [X |-> NoteRows(<<60>>), y |-> <<0>>],
      [X |-> NoteRows(<<61>>), y |-> <<3>>],
      [X |-> NoteRows(<<60, 62>>), y |-> <<0, 6>>],
      [X |-> NoteRows(<<62, 60>>), y |-> <<6, 0>>],
      [X |-> NoteRows(<<60, 62, 64>>), y |-> <<0, 6, 12>>] }

InitBatch ==
    /\ InitTables
    /\ InitNoteVars
    /\ error = ""
    /\ calls = << >>
    /\ InitFiles
    /\ InitLoop
    /\ InitEval
    /\ X_test = << >>
    /\ y_test = << >>
    /\ trainer = None
    /\ val_dataloader = None
    /\ batch = None
    /\ \E n \in 1..MaxPieces : \E pieces \in [1..n -> SamplePieces] :
        /\ X_train = [i \in 1..n |-> pieces[i].X]
        /\ y_train = [i \in 1..n |-> pieces[i].y]
    /\ \E batch_size \in 1..MaxBatch :
        train_dataloader = DataLoader(PSDataset(X_train, y_train), batch_size)
    /\ pc = "loader"

\* for batch in train_dataloader: one iteration
LoaderNext ==
    /\ At("loader")
    /\ i_loop < NumBatches(train_dataloader)
    /\ batch' = collate_ps(BatchItems(train_dataloader, i_loop))
    /\ i_loop' = i_loop + 1
    /\ UNCHANGED <<tableVars, module, noteVars, pc, error, fileVars, fs, calls,
                   cd_data, cd_labels, dataVars, trainer, train_dataloader,
                   val_dataloader, evalVars, truthVars>>

NextBatch == LoaderNext

SpecBatch == InitBatch /\ [][NextBatch]_vars

---------------------------------------------------------------------------
(* The training cells on their own: a session in which the tables are     *)
(* defined and X_train, y_train, X_test, y_test hold a few pieces, about   *)
(* to run the cell that builds the model, the loaders and the trainer.     *)

\* Pieces of one, two and three notes, taken in turn.
PieceList ==
    << [X |-> NoteRows(<<60>>), y |-> <<0>>],
       [X |-> NoteRows(<<60, 62>>), y |-> <<0, 6>>],
       [X |-> NoteRows(<<60, 62, 64>>), y |-> <<0, 6, 12>>] >>

PieceAt(i) == PieceList[((i - 1) % Len(PieceList)) + 1]

InitTrain ==
    /\ PITCHES = PITCHES_literal
    /\ accepted_pitches = FlattenValues(PITCHES)
    /\ pitch_to_ix = PitchToIx(accepted_pitches)
    /\ module = None
    /\ InitNoteVars
    /\ error = ""
    /\ calls = << >>
    /\ InitFiles
    /\ InitLoop
    /\ InitFit
    /\ InitEval
    /\ \E n \in 1..MaxPieces :
        /\ X_train = [i \in 1..n |-> PieceAt(i).X]
        /\ y_train = [i \in 1..n |-> PieceAt(i).y]
    /\ \E n \in 1..MaxPieces :
        /\ X_test = [i \in 1..n |-> PieceAt(i + 1).X]
        /\ y_test = [i \in 1..n |-> PieceAt(i + 1).y]
    /\ pc = "model"

NextTrain ==
    \/ CellModel
    \/ FitStart
    \/ ValidationStep
    \/ TrainingStep
    \/ FitReturn

\* The cells run on: a step that can be taken is taken.
SpecTrain == InitTrain /\ [][NextTrain]_vars /\ WF_vars(NextTrain)

---------------------------------------------------------------------------
(* produce_match on its own: one performance whose alignment table holds   *)
(* any rows, its midi_id column read as str (ids and "deletion") or, where *)
(* every midi_id is a number, as int.                                      *)

MaxRows == 3

XmlIds == { PyStr("n1"), PyStr("insertion") }
MidiIdColumns == { { PyStr("0"), PyStr("deletion") }, { PyInt(0), PyInt(1) } }

\* The tables of at most MaxRows rows.
Tables ==
    UNION { [1..n -> XmlIds \X column] : <<n, column>> \in (0..MaxRows) \X MidiIdColumns }

TableRecordings ==
    { [pna |-> << [id |-> "0", pitch |-> 60, duration_sec |-> Rat(1, 2)],
                  [id |-> "1", pitch |-> 62, duration_sec |-> Rat(1, 2)] >>,
       rows |-> rows] : rows \in Tables }

InitMatch ==
    /\ InitTables
    /\ InitNoteVars
    /\ error = ""
    /\ calls = << >>
    /\ asap_files = << AsapEntry(RootOf(<< <<"Italian", "concerto">> >>, "KaszoS15M"),
                                 NoteAlignmentTsv) >>
    /\ asap_train = << >>
    /\ asap_test = asap_files
    /\ fs = << >>
    /\ InitLoop
    /\ InitData
    /\ InitFit
    /\ InitEval
    /\ pc = "produce_match"

TableProduceMatch ==
    /\ At("produce_match")
    /\ i_loop < Len(ProduceList)
    /\ \E rec \in TableRecordings : produce_match(ProduceList[i_loop + 1], rec)
    /\ i_loop' = i_loop + 1
    /\ UNCHANGED <<tableVars, module, noteVars, pc, error, fileVars, cd_data,
                   cd_labels, dataVars, fitVars, evalVars, truthVars>>

NextMatch ==
    \/ TableProduceMatch
    \/ ProduceMatchDone

SpecMatch == InitMatch /\ [][NextMatch]_vars

---------------------------------------------------------------------------
(* eval_matched on the third test performance: the evaluation cells run on  *)
(* tables of at most MaxRows rows over the ids of the score and of the     *)
(* performance, the variables these cells do not read left as at the start.*)

EvalRows ==
    { <<PyStr("n2"), PyStr("1")>>, <<PyStr("n1"), PyStr("1")>>, <<PyStr("n3"), PyStr("0")>>,
      <<PyStr("n1"), PyStr("0")>>, <<PyStr("n3"), PyStr("deletion")>>,
      <<PyStr("insertion"), PyStr("2")>> }

EvalTables == UNION { [1..n -> EvalRows] : n \in 0..MaxRows }

EvalPerformances ==
    { << [id |-> "0", pitch |-> 48, duration_sec |-> Rat(1, 2)],
         [id |-> "1", pitch |-> 66, duration_sec |-> Rat(1, 2)],
         [id |-> "2", pitch |-> 127, duration_sec |-> Rat(1, 2)] >>,
      << [id |-> "0", pitch |-> 11, duration_sec |-> Rat(2, 1)] >> }

InitEvalCells ==
    /\ PITCHES = PITCHES_literal
    /\ accepted_pitches = FlattenValues(PITCHES)
    /\ pitch_to_ix = PitchToIx(accepted_pitches)
    /\ module = [n_out_pitch |-> Cardinality(DOMAIN pitch_to_ix)]
    /\ InitNoteVars
    /\ error = ""
    /\ calls = << >>
    /\ asap_files = [i \in 1..Len(PerformersOf(<<ItalianConcerto>>)) |->
                        AsapEntry(RootOf(<<ItalianConcerto>>,
                                         PerformersOf(<<ItalianConcerto>>)[i]),
                                  NoteAlignmentTsv)]
    /\ asap_train = SplitTrain(ScoreMatchPairs(asap_files))
    /\ asap_test = SplitTest(ScoreMatchPairs(asap_files))
    /\ \E pna \in EvalPerformances, rows \in EvalTables :
        fs = (asap_files[3][4] :> MatchFile(pna, ProduceAlignment(rows)))
             @@ (asap_files[3][1] :> rows) @@ (asap_files[3][2] :> pna)
    /\ InitLoop
    /\ InitData
    /\ InitFit
    /\ InitEval
    /\ pc = "eval_load"

NextEval ==
    \/ CellEvalLoad
    \/ CellEvalMatched
    \/ CellAccuracy

SpecEval == InitEvalCells /\ [][NextEval]_vars

---------------------------------------------------------------------------
(* predict on one performance, whatever the network scores: the first note *)
(* of any MIDI pitch and of any label, the notes after it of the labels of *)
(* a run.                                                                  *)

PredictPerformances ==
    { << [id |-> "0", pitch |-> p, duration_sec |-> Rat(1, 2)],
         [id |-> "1", pitch |-> 66, duration_sec |-> Rat(1, 2)] >> : p \in 0..MidiMax }

InitPredict ==
    /\ PITCHES = PITCHES_literal
    /\ accepted_pitches = FlattenValues(PITCHES)
    /\ pitch_to_ix = PitchToIx(accepted_pitches)
    /\ module = [n_out_pitch |-> Cardinality(DOMAIN pitch_to_ix)]
    /\ InitNoteVars
    /\ error = ""
    /\ calls = << >>
    /\ asap_files = << AsapEntry(RootOf(<<ItalianConcerto>>,
                                        PerformersOf(<<ItalianConcerto>>)[1]),
                                 NoteAlignmentTsv) >>
    /\ asap_train = SplitTrain(ScoreMatchPairs(asap_files))
    /\ asap_test = SplitTest(ScoreMatchPairs(asap_files))
    /\ \E pna \in PredictPerformances : fs = (asap_files[1][2] :> pna)
    /\ InitLoop
    /\ InitData
    /\ InitFit
    /\ InitEval
    /\ pc = "predict"

\* Every label the argmax over the n_out_pitch outputs can be.
AnyLabel == 0..(module.n_out_pitch - 1)

PredictAnyScores == CellPredictAmong(AnyLabel, TokenSamples)

NextPredict == PredictAnyScores

SpecPredict == InitPredict /\ [][NextPredict]_vars

---------------------------------------------------------------------------
(* Properties.                                                             *)

NumClasses == 35

\* +1 for each "#", -1 for each "-" of a name's accidental characters.
RECURSIVE AccidentalSum(_)
AccidentalSum(s) ==
    IF s = << >> THEN 0
    ELSE (IF Head(s) = "#" THEN 1 ELSE IF Head(s) = "-" THEN -1 ELSE 0)
         + AccidentalSum(Tail(s))

PitchClassOfName(name) ==
    (Semitone(Head(name)) + AccidentalSum(Tail(name)) + PitchClasses) % PitchClasses

NameSet(lst) == {lst[i] : i \in 1..Len(lst)}

StepAlterPairs == [step : Steps, alter : Alters]

\* C1: every name PITCHES holds is filed under its own pitch class: for
\* every key k and every name n of PITCHES[k], the semitone of n's letter
\* plus one per "#" and minus one per "-", modulo 12, is k.
C1_NamesFiledUnderOwnPitchClass ==
    \A k \in DOMAIN PITCHES :
        \A i \in DOMAIN PITCHES[k] : PitchClassOfName(PITCHES[k][i]) = k

C1_Witness ==
    /\ TablesDefined
    /\ DOMAIN PITCHES = 0..11
    /\ <<"C","-","-">> \in NameSet(PITCHES[10])
    /\ <<"B","#","#">> \in NameSet(PITCHES[1])

\* C2: there are exactly 35 target classes: accepted_pitches holds 35
\* pairwise distinct names, pitch_to_ix maps them one-to-one onto 0..34 and
\* accepted_pitches[pitch_to_ix[p]] = p, n_out_pitch is 35, and every label
\* tokenize_pitch_spelling returns is in 0..n_out_pitch-1.
C2_ThirtyFiveClasses ==
    /\ TablesDefined =>
        /\ Len(accepted_pitches) = NumClasses
        /\ Cardinality(NameSet(accepted_pitches)) = NumClasses
        /\ DOMAIN pitch_to_ix = NameSet(accepted_pitches)
        /\ {pitch_to_ix[p] : p \in DOMAIN pitch_to_ix} = 0..(NumClasses - 1)
        /\ \A p \in DOMAIN pitch_to_ix : accepted_pitches[pitch_to_ix[p] + 1] = p
    /\ module # None => module.n_out_pitch = NumClasses
    /\ (label # None /\ label.err = "") =>
        /\ label.val \in 0..(NumClasses - 1)
        /\ module # None => label.val \in 0..(module.n_out_pitch - 1)

C2_Witness ==
    /\ module # None
    /\ label # None
    /\ label.err = ""
    /\ label.val = NumClasses - 1

C4_TokenizeDecodeRoundTrip ==
    /\ label # None => (label.err = "" /\ label.val \in 0..(NumClasses - 1))
    /\ spelled # None =>
        spelled = Ok([step |-> ps_note.step, alter |-> ps_note.alter])
    /\ TablesDefined =>
        /\ \A p \in StepAlterPairs :
            LET tp == tokenize_pitch_spelling(p, pitch_to_ix)
            IN  /\ tp.err = ""
                /\ tp.val \in 0..(NumClasses - 1)
                /\ DecodeToken(tp.val, accepted_pitches) = Ok(p)
        /\ Cardinality({tokenize_pitch_spelling(p, pitch_to_ix) : p \in StepAlterPairs})
            = Cardinality(StepAlterPairs)
        /\ \A t \in 0..(NumClasses - 1) :
            LET d == DecodeToken(t, accepted_pitches)
            IN  /\ d.err = ""
                /\ d.val \in StepAlterPairs
                /\ tokenize_pitch_spelling(d.val, pitch_to_ix) = Ok(t)

C4_Witness ==
    /\ spelled # None
    /\ ps_note.step = "C"
    /\ ps_note.alter = -2
    /\ label.val = 31

\* C5: extract_features returns 14 entries: entries 0..11 are the one-hot
\* code of pitch mod 12, entry 12 is pitch/127, entry 13 is duration_sec/60.
C5_FeatureVector ==
    features # None =>
        /\ DOMAIN features = 0..13
        /\ \A i \in 0..11 :
            features[i] = IF i = perf_note.pitch % 12 THEN One ELSE Zero
        /\ features[12].num * 127 = perf_note.pitch * features[12].den
        /\ features[13].num * 60 * perf_note.duration_sec.den
            = perf_note.duration_sec.num * features[13].den

C5_Witness ==
    /\ features # None
    /\ perf_note.pitch = 127
    /\ features[7] = One
    /\ perf_note.duration_sec = Rat(1, 2)

InUnitInterval(r) == RatLeq(Zero, r) /\ RatLeq(r, One)

\* C6, as stated: every entry of the feature vector lies in [0,1], for
\* every pitch in 0..127 and every non-negative duration.
C6_FeaturesInUnitInterval ==
    features # None => \A i \in DOMAIN features : InUnitInterval(features[i])

\* C6: the one-hot entries are 0 or 1 and the normalised pitch lies in
\* [0,1]; the normalised duration is non-negative, and it is at most 1
\* exactly when the duration is at most 60 seconds.
C6_FeaturesInUnitIntervalUpToAMinute ==
    features # None =>
        /\ \A i \in 0..11 : features[i] \in {Zero, One}
        /\ InUnitInterval(features[12])
        /\ RatLeq(Zero, features[13])
        /\ RatLeq(features[13], One) <=> RatLeq(perf_note.duration_sec, Rat(60, 1))

C6_Witness ==
    /\ features # None
    /\ perf_note.duration_sec = Rat(61, 1)
    /\ ~RatLeq(features[13], One)

\* The position of a cell in the run.
CellRank(c) ==
    CASE c = "asap_files" -> 1 [] c = "split_files" -> 2 [] c = "produce_match" -> 3
      [] c = "split_pairs" -> 4 [] c = "pitches" -> 5 [] c = "create_train" -> 6
      [] c = "create_test" -> 7 [] c = "model" -> 8 [] c = "fit" -> 9
      [] c = "predict" -> 10 [] c = "eval_load" -> 11 [] c = "eval_matched" -> 12
      [] c = "accuracy" -> 13 [] c = "done" -> 14
      [] OTHER -> 0

\* The run has completed cell c.
Past(c) == CellRank(pc) > CellRank(c)

\* The positions of the entries labelled "match", and the i-th of them.
MatchPositions(alg) == {j \in 1..Len(alg) : alg[j].label = "match"}
NthMatch(alg, i) ==
    alg[CHOOSE j \in MatchPositions(alg) :
            Cardinality({k \in MatchPositions(alg) : k < j}) = i - 1]

\* (X, y) holds the rows of the "match" entries of one (score, match) pair.
PairsOfMatches(X, y, pair) ==
    LET alg == fs[pair[2]].alignment
        pna == fs[pair[2]].performance
        sna == ScoreNoteArray(pair[1])
    IN  /\ Len(X) = Cardinality(MatchPositions(alg))
        /\ Len(y) = Len(X)
        /\ \A i \in 1..Len(X) :
            /\ \E n \in 1..Len(pna) :
                /\ pna[n].id = NthMatch(alg, i).performance_id
                /\ X[i] = extract_features(pna[n])
            /\ \E n \in 1..Len(sna) :
                /\ sna[n].id = NthMatch(alg, i).score_id
                /\ Ok(y[i]) = tokenize_pitch_spelling(sna[n], pitch_to_ix)

\* data and labels hold one (X, y) per file of the list, in its order.
DataOfFiles(data, labels, files, n) ==
    /\ Len(data) = n
    /\ Len(labels) = n
    /\ \A k \in 1..n : PairsOfMatches(data[k], labels[k], files[k])

\* C7: create_data builds its pairs from exactly the entries labelled
\* "match": X and y of a piece have one row per "match" entry, row i the
\* features of the performance note and the token of the score note of the
\* i-th such entry; the lists hold one (X, y) per input file, in order.
C7_CreateDataFromMatches ==
    /\ (pc \in {"create_train", "create_test"} /\ error = "") =>
        DataOfFiles(cd_data, cd_labels, CreateDataFiles, i_loop)
    /\ Past("create_train") =>
        DataOfFiles(X_train, y_train, asap_train, Len(asap_train))
    /\ Past("create_test") =>
        DataOfFiles(X_test, y_test, asap_test, Len(asap_test))

C7_Witness ==
    /\ Past("create_test")
    /\ Len(X_train) = 2
    /\ Len(X_test) = 2
    /\ \E k \in 1..Len(asap_test) :
        LET alg == fs[asap_test[k][2]].alignment
        IN  /\ \E j \in 1..Len(alg) : alg[j].label = "insertion"
            /\ \E j \in 1..Len(alg) : alg[j].label = "deletion"
            /\ Len(alg) = 4
            /\ Len(X_test[k]) = 2
            /\ y_test[k] = <<30, 15>>

\* The elements of seq at the positions of S, in order.
RECURSIVE SubsequenceAt(_, _)
SubsequenceAt(seq, S) ==
    IF seq = << >> THEN << >>
    ELSE SubsequenceAt(SubSeq(seq, 1, Len(seq) - 1), S)
         \o (IF Len(seq) \in S THEN <<seq[Len(seq)]>> ELSE << >>)

Range(seq) == {seq[i] : i \in 1..Len(seq)}

\* C8: the split is a partition by piece: asap_test holds exactly the
\* (score, match) pairs of asap_files whose score path contains
\* "Italian_concerto", asap_train the others, both in the order of
\* asap_files; every pair is in exactly one, and no score is in both.
C8_SplitIsPartitionByPiece ==
    Past("split_pairs") =>
        LET pairs == [i \in 1..Len(asap_files) |-> <<asap_files[i][3], asap_files[i][4]>>]
            italian == {i \in 1..Len(pairs) :
                          \/ \E j \in 1..Len(pairs[i][1].dir) :
                                OccursIn(ItalianConcerto, pairs[i][1].dir[j])
                          \/ OccursIn(ItalianConcerto, pairs[i][1].stem)}
        IN  /\ asap_test = SubsequenceAt(pairs, italian)
            /\ asap_train = SubsequenceAt(pairs, (1..Len(pairs)) \ italian)
            /\ Len(asap_train) + Len(asap_test) = Len(pairs)
            /\ Range(asap_train) \cup Range(asap_test) = Range(pairs)
            /\ Range(asap_train) \cap Range(asap_test) = {}
            /\ {t[1] : t \in Range(asap_train)} \cap {t[1] : t \in Range(asap_test)} = {}

C8_Witness ==
    /\ Past("split_pairs")
    /\ Len(asap_train) = 2
    /\ Len(asap_test) = 2
    /\ asap_test[1][1] = asap_test[2][1]
    /\ asap_files[1][3] = asap_test[1][1]
    /\ asap_files[4][3] = asap_train[2][1]

\* The positions of the calls of an operation.
CallsOf(op) == {j \in 1..Len(calls) : calls[j].op = op}

\* C9: the stages run in order: before any load_match, produce_match has
\* been called exactly once for every entry of asap_files; every match
\* path loaded is the match path of an entry of asap_files; both
\* create_data calls have returned before fit starts; and predict is only
\* called after fit has returned.
C9_StagesInOrder ==
    /\ \A j \in CallsOf("load_match") :
        /\ \A i \in 1..Len(asap_files) :
            Cardinality({k \in CallsOf("produce_match") :
                            k < j /\ calls[k].path = asap_files[i][4]}) = 1
        /\ Cardinality({k \in CallsOf("produce_match") : k < j}) = Len(asap_files)
        /\ \E i \in 1..Len(asap_files) : calls[j].path = asap_files[i][4]
    /\ \A j \in CallsOf("fit_start") :
        /\ \E k \in CallsOf("create_data_return") : k < j /\ calls[k].path = "create_train"
        /\ \E k \in CallsOf("create_data_return") : k < j /\ calls[k].path = "create_test"
        /\ \A k \in CallsOf("load_match") : k < j => \E r \in CallsOf("create_data_return") : k < r /\ r < j
    /\ \A j \in CallsOf("predict") : \E k \in CallsOf("fit_return") : k < j
    /\ Cardinality(CallsOf("fit_start")) <= 1

C9_Witness ==
    /\ pc = "eval_matched"
    /\ Len(asap_files) = 4
    /\ Cardinality(CallsOf("predict")) = 2
    /\ Cardinality(CallsOf("load_match")) = 5
    /\ calls[Len(calls) - 1].op = "load_match"

\* C10: predict returns one spelling per performed note: for a performance
\* of n >= 1 notes an array of exactly n (step, alter, octave) records,
\* the i-th of the i-th note, with step in A..G, alter in -2..2 and
\* octave = floor(pitch_i / 12) - 1.
C10_PredictOneSpellingPerNote ==
    (pk_spelling # None /\ Len(performance.pna) >= 1) =>
        /\ pk_spelling.err = ""
        /\ Len(pk_spelling.val) = Len(performance.pna)
        /\ \A i \in 1..Len(performance.pna) :
            /\ pk_spelling.val[i].step \in Steps
            /\ pk_spelling.val[i].alter \in Alters
            /\ 12 * (pk_spelling.val[i].octave + 1) <= performance.pna[i].pitch
            /\ performance.pna[i].pitch < 12 * (pk_spelling.val[i].octave + 2)

\* The 0-based positions in the dataset of the items of batch k.
BatchRange(dl, k) ==
    (k * dl.batch_size)..(Min((k + 1) * dl.batch_size, Len(dl.dataset.x)) - 1)

\* C11: collate_ps hands on exactly one piece per batch: the features
\* (cast to float32) and the labels of one and the same item, the earliest
\* of the items with the most notes, while src_lengths lists the lengths of
\* all items in non-increasing order; with a batch size of 1 batch k is
\* piece k with its features and labels as they are, and there are as many
\* batches as pieces.
C11_CollateHandsLongestPiece ==
    (pc = "loader" /\ batch # None) =>
        LET dl == train_dataloader
            k == i_loop - 1
            items == BatchRange(dl, k)
            len(j) == Len(X_train[j + 1])
            m == CHOOSE j \in items :
                    /\ \A i \in items : len(i) <= len(j)
                    /\ \A i \in items : i < j => len(i) < len(j)
        IN  /\ batch.src_seqs.dtype = "float32"
            /\ Len(batch.src_seqs.data) = len(m)
            /\ \A i \in 1..len(m) : \A j \in 0..(InputDim - 1) :
                batch.src_seqs.data[i][j] = Float32(X_train[m + 1][i][j])
            /\ batch.trg_seqs = [dtype |-> "int64", data |-> y_train[m + 1]]
            /\ Len(batch.src_lengths) = Cardinality(items)
            /\ \A i \in 1..(Len(batch.src_lengths) - 1) :
                batch.src_lengths[i] >= batch.src_lengths[i + 1]
            /\ \A n \in 0..MaxPieces :
                Cardinality({i \in 1..Len(batch.src_lengths) : batch.src_lengths[i] = n})
                    = Cardinality({j \in items : len(j) = n})
            /\ dl.batch_size = 1 =>
                /\ m = k
                /\ batch.src_lengths = <<len(k)>>
                /\ NumBatches(dl) = Len(X_train)

\* A batch of three pieces of 1, 2 and 2 notes, the two longest different:
\* the second piece is handed on, the third is not.
C11_Witness ==
    /\ pc = "loader"
    /\ batch # None
    /\ train_dataloader.batch_size = 3
    /\ Len(X_train) = 3
    /\ Len(X_train[1]) = 1
    /\ Len(X_train[2]) = 2
    /\ Len(X_train[3]) = 2
    /\ y_train[2] # y_train[3]
    /\ batch.trg_seqs.data = y_train[2]
    /\ batch.src_lengths = <<2, 2, 1>>
    /\ batch.src_seqs.data[1][12] = [mant |-> 15852488, exp |-> -25]


\* The positions in calls of the steps of a loop ("train", "val", "sanity")
\* in epoch e on batch b.
StepsAt(stage, e, b) ==
    {j \in CallsOf("training_step") \cup CallsOf("validation_step") :
        calls[j].path = [stage |-> stage, epoch |-> e, batch_idx |-> b]}

\* Epoch e has run: one training_step per training piece, in order, then
\* one validation_step per test piece, in order.
EpochRan(e) ==
    LET pos(stage, b) == CHOOSE j \in StepsAt(stage, e, b) : TRUE
    IN  /\ \A b \in 0..(Len(X_train) - 1) : Cardinality(StepsAt("train", e, b)) = 1
        /\ \A b \in 0..(Len(X_test) - 1) : Cardinality(StepsAt("val", e, b)) = 1
        /\ \A b \in 1..(Len(X_train) - 1) : pos("train", b - 1) < pos("train", b)
        /\ \A b \in 1..(Len(X_test) - 1) : pos("val", b - 1) < pos("val", b)
        /\ pos("train", Len(X_train) - 1) < pos("val", 0)
        /\ e > 0 => \A j \in UNION {StepsAt("val", e - 1, b) : b \in 0..(Len(X_test) - 1)} :
                        j < pos("train", 0)

C12_EpochsRun ==
    /\ \A j \in CallsOf("training_step") :
        /\ calls[j].path.stage = "train"
        /\ calls[j].path.epoch \in 0..4
        /\ calls[j].path.batch_idx \in 0..(Len(X_train) - 1)
        /\ \A k \in CallsOf("fit_return") : j < k
    /\ pc = "fit" => \A e \in 0..(trainer.current_epoch - 1) : EpochRan(e)
    /\ \A k \in CallsOf("fit_return") :
        /\ trainer.current_epoch = 5
        /\ trainer.stage = "stopped"
        /\ \A e \in 0..4 : EpochRan(e)
        /\ Cardinality(CallsOf("training_step")) = 5 * Len(X_train)
        /\ Cardinality({j \in CallsOf("validation_step") : calls[j].path.stage = "val"})
            = 5 * Len(X_test)

\* C12: training terminates: once trainer.fit is entered it returns, after
\* exactly 5 epochs, each epoch one training_step per training piece
\* followed by one validation_step per test piece, and no training_step
\* runs after the fifth epoch.
C12_TrainingTerminates ==
    /\ []C12_EpochsRun
    /\ (pc = "fit" /\ error = "") ~> (pc = "predict" /\ trainer.stage = "stopped")

C12_Witness ==
    /\ pc = "predict"
    /\ trainer.current_epoch = 5
    /\ Len(X_train) = 3
    /\ Len(X_test) = 2
    /\ Cardinality(CallsOf("training_step")) = 15
    /\ Cardinality(CallsOf("validation_step")) = 12
    /\ calls[Len(calls)].op = "fit_return"
    /\ calls[Len(calls) - 1] = Call("validation_step", [stage |-> "val", epoch |-> 4, batch_idx |-> 1])


\* The decimal numeral of a midi_id read as int, the text of one read as str.
IdText(cell) ==
    IF "str" \in DOMAIN cell THEN cell.str
    ELSE CASE cell.int = 0 -> "0" [] cell.int = 1 -> "1"

\* Entry i of the alignment written to a match file is built from row i of
\* the table as produce_match labels it.
EntryOfRow(d, x) ==
    IF x[2] = PyStr("deletion")
    THEN d = [label |-> "deletion", score_id |-> x[1].str]
    ELSE IF x[1] = PyStr("insertion")
    THEN d = [label |-> "insertion", performance_id |-> IdText(x[2])]
    ELSE d = [label |-> "match", score_id |-> x[1].str, performance_id |-> IdText(x[2])]

EntriesOfRows(t) ==
    LET rows == fs[t[1]]
        alg == fs[t[4]].alignment
    IN  /\ Len(alg) = Len(rows)
        /\ \A i \in 1..Len(rows) : EntryOfRow(alg[i], rows[i])

\* No entry carries the word of the other kind as an id.
NoWordAsId(d) ==
    /\ "score_id" \in DOMAIN d => d.score_id # "insertion"
    /\ "performance_id" \in DOMAIN d => d.performance_id # "deletion"

\* C13 as stated: every row becomes exactly one entry, in row order,
\* labelled 'deletion' (score_id only) when midi_id is 'deletion', otherwise
\* 'insertion' (performance_id only) when xml_id is 'insertion', otherwise
\* 'match' (both ids, performance_id = str(midi_id)); no entry has score_id
\* 'insertion' or performance_id 'deletion'.
C13_RowsToEntries ==
    \A i \in 1..Len(asap_files) :
        asap_files[i][4] \in DOMAIN fs =>
            /\ EntriesOfRows(asap_files[i])
            /\ \A j \in 1..Len(fs[asap_files[i][4]].alignment) :
                NoWordAsId(fs[asap_files[i][4]].alignment[j])

\* C13, amended: every row becomes exactly one entry, in row order, labelled
\* as stated; no entry has performance_id 'deletion', and an entry has
\* score_id 'insertion' exactly when its row is ('insertion', 'deletion'),
\* which is labelled 'deletion'.
C13_RowsToEntriesButInsertionDeleted ==
    \A i \in 1..Len(asap_files) :
        asap_files[i][4] \in DOMAIN fs =>
            LET rows == fs[asap_files[i][1]]
                alg == fs[asap_files[i][4]].alignment
            IN  /\ EntriesOfRows(asap_files[i])
                /\ \A j \in 1..Len(alg) :
                    /\ "performance_id" \in DOMAIN alg[j] => alg[j].performance_id # "deletion"
                    /\ ("score_id" \in DOMAIN alg[j] /\ alg[j].score_id = "insertion")
                        <=> rows[j] = <<PyStr("insertion"), PyStr("deletion")>>

\* A table whose rows give a match, a deleted "insertion" and an insertion.
C13_Witness ==
    /\ pc = "produce_match"
    /\ i_loop = 1
    /\ fs[asap_files[1][1]] = << <<PyStr("n1"), PyStr("0")>>,
                                 <<PyStr("insertion"), PyStr("deletion")>>,
                                 <<PyStr("insertion"), PyStr("0")>> >>
    /\ fs[asap_files[1][4]].alignment =
        << [label |-> "match", score_id |-> "n1", performance_id |-> "0"],
           [label |-> "deletion", score_id |-> "insertion"],
           [label |-> "insertion", performance_id |-> "0"] >>


\* Performance note i has a 'match' entry in the loaded alignment.
IsMatchedNote(i) ==
    \E j \in 1..Len(alignment) :
        alignment[j].label = "match" /\ alignment[j].performance_id = performance.pna[i].id

\* The first 'match' entry of performance note i.
FirstEntryOf(i) ==
    alignment[CHOOSE j \in 1..Len(alignment) :
        /\ alignment[j].label = "match"
        /\ alignment[j].performance_id = performance.pna[i].id
        /\ \A h \in 1..(j - 1) :
            ~(alignment[h].label = "match"
              /\ alignment[h].performance_id = performance.pna[i].id)]

\* The k-th element of a set of numbers, in increasing order.
NthOf(S, k) == CHOOSE i \in S : Cardinality({h \in S : h < i}) = k - 1

\* A spelling sounds MIDI pitch p.
Sounds(sp, p) == PitchClasses * (sp.octave + 1) + Semitone(sp.step) + sp.alter = p

\* C14: eval_matched aligns the ground truth with the predictions: once the
\* cell has run on a performance with at least one matched note, it has
\* raised nothing, matched[i] is 1 exactly for the performance notes that
\* are the performance_id of a 'match' entry, true_spelling has one record
\* per 1 of matched, in performance-note order, the k-th being the (step,
\* alter, octave) of the score note of the first 'match' entry of the k-th
\* masked note, and pk_spelling and baseline_spelling, masked, have that
\* length and hold at position k what they held for that same note.
C14_EvalMatchedAligns ==
    (CallsOf("eval_matched") # {} /\ \E i \in 1..Len(performance.pna) : IsMatchedNote(i)) =>
        LET pna == performance.pna
            sna == ScoreNoteArray(score_file)
            ones == {i \in 1..Len(pna) : matched[i] = 1}
        IN  /\ error = ""
            /\ pc \in {"accuracy", "done"}
            /\ Len(matched) = Len(pna)
            /\ \A i \in 1..Len(pna) : matched[i] = IF IsMatchedNote(i) THEN 1 ELSE 0
            /\ Len(true_spelling) = Cardinality(ones)
            /\ \A k \in 1..Len(true_spelling) :
                \E n \in 1..Len(sna) :
                    /\ sna[n].id = FirstEntryOf(NthOf(ones, k)).score_id
                    /\ true_spelling[k] = [step |-> sna[n].step, alter |-> sna[n].alter,
                                           octave |-> sna[n].octave]
            /\ Len(pk_spelling.val) = Len(true_spelling)
            /\ Len(baseline_spelling) = Len(true_spelling)
            /\ \E argmax \in Argmaxes(Len(pna)) :
                pk_spelling.val = SubsequenceAt(Predict(pna, argmax).val, ones)
            /\ \A k \in 1..Len(true_spelling) :
                /\ pk_spelling.val[k].octave
                     = (pna[NthOf(ones, k)].pitch \div PitchClasses) - 1
                /\ Sounds(baseline_spelling[k], pna[NthOf(ones, k)].pitch)

C14_Witness ==
    /\ pc = "done"
    /\ Len(performance.pna) = 3
    /\ Len(alignment) = 3
    /\ Cardinality({j \in 1..Len(alignment) : alignment[j].label = "match"}) = 3
    /\ IsMatchedNote(1)
    /\ FirstEntryOf(2).score_id = "n2"
    /\ alignment[2].score_id = "n1"
    /\ matched = <<1, 1, 0>>
    /\ Len(true_spelling) = 2
    /\ true_spelling[1].step = "C"
    /\ true_spelling[2].step = "B"

\* The name tokenize_pitch_spelling forms of a (step, alter).
NameOf(sp) == <<sp.step>> \o AlterToStr[sp.alter]

\* predict has returned an array for the loaded performance.
PredictReturned == CallsOf("predict") # {} /\ error = ""

\* C15: the spelling predict returns for a note has the pitch class of the
\* note: whatever the labels of the argmax, the name (step, alter) of
\* every record is one of the names PITCHES lists under pitch mod 12.
C15_PredictedNameHasPitchClass ==
    PredictReturned =>
        \A i \in 1..Len(performance.pna) :
            NameOf(pk_spelling.val[i])
                \in NameSet(PITCHES[performance.pna[i].pitch % PitchClasses])

\* C16: the octave predict attaches makes the triple denote the pitch:
\* whenever the name of a record is one PITCHES lists under pitch mod 12,
\* 12 * (octave + 1) + semitone(step) + alter is the pitch of the note.
C16_OctaveDenotesPitch ==
    PredictReturned =>
        \A i \in 1..Len(performance.pna) :
            NameOf(pk_spelling.val[i])
                    \in NameSet(PITCHES[performance.pna[i].pitch % PitchClasses])
                => Sounds(pk_spelling.val[i], performance.pna[i].pitch)

=============================================================================
